---- MODULE Spec2Model ----
(***************************************************************************)
(* Model of the single-asset back-testing toolkit                          *)
(*   src/src/alphas/backtest.py     Backtester (execution engine)          *)
(*   src/src/alphas/alpha.py        the three look-ahead strategies        *)
(*   src/src/alphas/performance.py  annualization / period-count helpers   *)
(*                                                                         *)
(* Prices and cash are Python floats (IEEE-754 binary64).  The ledger      *)
(* arithmetic of _execute is modelled with correctly rounded binary64      *)
(* operations on arbitrary-precision significands, so that rounding in     *)
(* floor(cash / price) and qty * price is part of the model.  Exponents    *)
(* are unbounded (no overflow / subnormals) and the sign of zero is not    *)
(* kept; every value of the model is far away from both.                   *)
(***************************************************************************)
EXTENDS Integers, Sequences, FiniteSets, TLC

(***************************************************************************)
(* Arbitrary-precision naturals: little-endian sequences of limbs in       *)
(* 0..Base-1 without leading (most significant) zero limbs; << >> is 0.    *)
(***************************************************************************)
LimbBits == 14
Base == 2^LimbBits

RECURSIVE BNorm(_)
BNorm(a) ==
    IF a = << >> THEN << >>
    ELSE IF a[Len(a)] = 0 THEN BNorm(SubSeq(a, 1, Len(a) - 1))
    ELSE a

RECURSIVE BFromInt(_)
BFromInt(n) ==
    IF n = 0 THEN << >> ELSE <<n % Base>> \o BFromInt(n \div Base)

RECURSIVE BToInt(_)
BToInt(a) ==
    IF a = << >> THEN 0 ELSE a[1] + Base * BToInt(Tail(a))

Limb(a, k) == IF k <= Len(a) THEN a[k] ELSE 0

MaxOf(x, y) == IF x >= y THEN x ELSE y
MinOf(x, y) == IF x <= y THEN x ELSE y

RECURSIVE BCmpFrom(_, _, _)
BCmpFrom(a, b, k) ==
    IF k = 0 THEN 0
    ELSE IF Limb(a, k) > Limb(b, k) THEN 1
    ELSE IF Limb(a, k) < Limb(b, k) THEN -1
    ELSE BCmpFrom(a, b, k - 1)

BCmp(a, b) == BCmpFrom(a, b, MaxOf(Len(a), Len(b)))

RECURSIVE BAddFrom(_, _, _, _)
BAddFrom(a, b, k, carry) ==
    IF k > Len(a) /\ k > Len(b)
    THEN (IF carry = 0 THEN << >> ELSE <<carry>>)
    ELSE LET s == Limb(a, k) + Limb(b, k) + carry
         IN  <<s % Base>> \o BAddFrom(a, b, k + 1, s \div Base)

BAdd(a, b) == BAddFrom(a, b, 1, 0)

\* a - b for a >= b
RECURSIVE BSubFrom(_, _, _, _)
BSubFrom(a, b, k, borrow) ==
    IF k > Len(a) THEN << >>
    ELSE LET d == Limb(a, k) - Limb(b, k) - borrow
         IN  IF d < 0 THEN <<d + Base>> \o BSubFrom(a, b, k + 1, 1)
             ELSE <<d>> \o BSubFrom(a, b, k + 1, 0)

BSub(a, b) == BNorm(BSubFrom(a, b, 1, 0))

\* a * m for a small natural m (m < 2^16)
RECURSIVE BMulSmallFrom(_, _, _, _)
BMulSmallFrom(a, m, k, carry) ==
    IF k > Len(a) THEN BFromInt(carry)
    ELSE LET p == a[k] * m + carry
         IN  <<p % Base>> \o BMulSmallFrom(a, m, k + 1, p \div Base)

BMulSmall(a, m) == BNorm(BMulSmallFrom(a, m, 1, 0))

BShiftLimbs(a, n) ==
    IF a = << >> THEN << >> ELSE [k \in 1..n |-> 0] \o a

RECURSIVE BMulFrom(_, _, _)
BMulFrom(a, b, k) ==
    IF k > Len(b) THEN << >>
    ELSE BAdd(BShiftLimbs(BMulSmall(a, b[k]), k - 1), BMulFrom(a, b, k + 1))

BMul(a, b) == BMulFrom(a, b, 1)

\* a * 2^n
BShl(a, n) == BShiftLimbs(BMulSmall(a, 2^(n % LimbBits)), n \div LimbBits)

\* number of bits of a small natural
RECURSIVE BitLenInt(_)
BitLenInt(n) == IF n = 0 THEN 0 ELSE 1 + BitLenInt(n \div 2)

BBitLen(a) ==
    IF a = << >> THEN 0 ELSE LimbBits * (Len(a) - 1) + BitLenInt(a[Len(a)])

\* bit n (0 = least significant) of a
BBit(a, n) == (Limb(a, n \div LimbBits + 1) \div 2^(n % LimbBits)) % 2

\* floor(a / 2^n)
BShr(a, n) ==
    LET w == n \div LimbBits
        r == n % LimbBits
        hi == IF w >= Len(a) THEN << >> ELSE SubSeq(a, w + 1, Len(a))
    IN  BNorm([k \in 1..Len(hi) |->
                  (hi[k] \div 2^r) + (Limb(hi, k + 1) % 2^r) * 2^(LimbBits - r)])

\* TRUE iff a mod 2^n # 0
BLowNonZero(a, n) ==
    LET w == n \div LimbBits
        r == n % LimbBits
    IN  \/ \E k \in 1..MinOf(w, Len(a)) : a[k] # 0
        \/ Limb(a, w + 1) % 2^r # 0

\* a * Base + d for a limb d
BPush(a, d) == IF a = << >> /\ d = 0 THEN << >> ELSE <<d>> \o a

\* one quotient limb of schoolbook long division: floor(r / b) for r < b * Base,
\* where the top limb of b is at least Base / 2.  The estimate from the two top
\* limbs of r is never too small and at most 2 too large.
RECURSIVE BDigitFix(_, _, _)
BDigitFix(r, b, qhat) ==
    IF BCmp(BMulSmall(b, qhat), r) > 0 THEN BDigitFix(r, b, qhat - 1) ELSE qhat

BDigit(r, b) ==
    LET top == Limb(r, Len(b) + 1) * Base + Limb(r, Len(b))
    IN  BDigitFix(r, b, MinOf(top \div b[Len(b)], Base - 1))

\* qr is the pair <<quotient, remainder>> of the limbs of a above limb k
RECURSIVE BDivModFrom(_, _, _, _)
BDivModFrom(a, b, k, qr) ==
    IF k = 0 THEN qr
    ELSE LET r2 == BPush(qr[2], a[k])
             d  == BDigit(r2, b)
         IN  BDivModFrom(a, b, k - 1, <<BPush(qr[1], d), BSub(r2, BMulSmall(b, d))>>)

\* <<floor(a / b), a mod b>> for b # 0; both are scaled so that the divisor
\* has a full top limb, which leaves the quotient unchanged
BDivMod(a, b) ==
    LET s  == LimbBits - BitLenInt(b[Len(b)])
        qr == BDivModFrom(BShl(a, s), BShl(b, s), Len(BShl(a, s)), <<<< >>, << >>>>)
    IN  <<qr[1], BShr(qr[2], s)>>

(***************************************************************************)
(* Python float: sign, significand, exponent; value = +-man * 2^exp.       *)
(* A nonzero float has a significand of exactly Precision bits.            *)
(***************************************************************************)
Precision == 53

FZero == [neg |-> FALSE, man |-> << >>, exp |-> 0]

\* round the exact value +-m * 2^e to the nearest float, ties to even
RoundPack(neg, m, e) ==
    LET len == BBitLen(m) IN
    IF len = 0 THEN FZero
    ELSE IF len <= Precision
    THEN [neg |-> neg, man |-> BShl(m, Precision - len), exp |-> e - (Precision - len)]
    ELSE LET sh     == len - Precision
             q      == BShr(m, sh)
             half   == BBit(m, sh - 1) = 1
             sticky == BLowNonZero(m, sh - 1)
             up     == half /\ (sticky \/ BBit(q, 0) = 1)
             q1     == IF up THEN BAdd(q, <<1>>) ELSE q
         IN  IF BBitLen(q1) > Precision
             THEN [neg |-> neg, man |-> BShr(q1, 1), exp |-> e + sh + 1]
             ELSE [neg |-> neg, man |-> q1, exp |-> e + sh]

\* float(n) for a Python int n
FFromInt(n) == RoundPack(n < 0, BFromInt(IF n < 0 THEN -n ELSE n), 0)

FNeg(a) == IF a.man = << >> THEN a ELSE [a EXCEPT !.neg = ~a.neg]

\* a * b
FMul(a, b) == RoundPack(a.neg # b.neg, BMul(a.man, b.man), a.exp + b.exp)

\* a + b
FAdd(a, b) ==
    IF a.man = << >> THEN b
    ELSE IF b.man = << >> THEN a
    ELSE LET e  == MinOf(a.exp, b.exp)
             am == BShl(a.man, a.exp - e)
             bm == BShl(b.man, b.exp - e)
         IN  IF a.neg = b.neg THEN RoundPack(a.neg, BAdd(am, bm), e)
             ELSE IF BCmp(am, bm) >= 0 THEN RoundPack(a.neg, BSub(am, bm), e)
             ELSE RoundPack(b.neg, BSub(bm, am), e)

\* a - b
FSub(a, b) == FAdd(a, FNeg(b))

\* a / b for b # 0: quotient to Precision + 3 bits and a sticky bit, then rounded
FDiv(a, b) ==
    IF a.man = << >> THEN FZero
    ELSE LET qr == BDivMod(BShl(a.man, Precision + 3), b.man)
             st == IF qr[2] = << >> THEN << >> ELSE <<1>>
         IN  RoundPack(a.neg # b.neg, BAdd(BMulSmall(qr[1], 2), st),
                       a.exp - b.exp - (Precision + 3) - 1)

\* math.floor(a) as a Python int
FFloor(a) ==
    IF a.man = << >> THEN 0
    ELSE IF a.exp >= 0
    THEN (IF a.neg THEN -1 ELSE 1) * BToInt(BShl(a.man, a.exp))
    ELSE LET q    == BToInt(BShr(a.man, -a.exp))
             frac == BLowNonZero(a.man, -a.exp)
         IN  IF a.neg THEN -(q + (IF frac THEN 1 ELSE 0)) ELSE q

\* sign of a - b: -1, 0 or 1
FCmpMag(a, b) ==
    IF a.man = << >> THEN (IF b.man = << >> THEN 0 ELSE -1)
    ELSE IF b.man = << >> THEN 1
    ELSE IF a.exp > b.exp THEN 1
    ELSE IF a.exp < b.exp THEN -1
    ELSE BCmp(a.man, b.man)

FCmp(a, b) ==
    IF a.neg /\ ~b.neg THEN -1
    ELSE IF ~a.neg /\ b.neg THEN 1
    ELSE IF a.neg THEN -FCmpMag(a, b)
    ELSE FCmpMag(a, b)

FLt(a, b) == FCmp(a, b) < 0
FLe(a, b) == FCmp(a, b) <= 0
FGt(a, b) == FCmp(a, b) > 0
FGe(a, b) == FCmp(a, b) >= 0

\* the float literal n/d (n, d small naturals, d # 0): the float nearest to n/d
Lit(n, d) == FDiv(FFromInt(n), FFromInt(d))


(***************************************************************************)
(* Python sequences: 0-based indexing, s[-1], s[a:b] for 0 <= a.           *)
(***************************************************************************)
At(s, k) == s[k + 1]
Last(s) == s[Len(s)]
Slice(s, a, b) == SubSeq(s, a + 1, MinOf(b, Len(s)))

(***************************************************************************)
(* Bounds of the model and the inputs drawn from them.                     *)
(***************************************************************************)
MaxBars == 3
MaxOffset == 2
MaxWindow == 3

\* a bar is a pair <<bid, ask>> of positive prices
Bars == { <<FFromInt(10), Lit(21, 2)>>, <<FFromInt(11), Lit(23, 2)>>,
          <<FFromInt(12), Lit(25, 2)>>, <<Lit(1, 100), Lit(1, 100)>> }

BarSeqs(m) == UNION { [1..n -> Bars] : n \in 0..m }

Cashes == { Lit(7, 10), FFromInt(100) }

\* timestamps of n bars: one second apart (seconds since the epoch)
Stamps(n) == [k \in 1..n |-> k]

Labels == {"buy", "sell", "hold"}
AggFns == {"sum", "min", "max", "mean"}

(***************************************************************************)
(* alpha.py: the three look-ahead strategies.  "Any" is an arbitrary       *)
(* implementation of the Strategy interface of backtest.py.                *)
(***************************************************************************)
AnyStrategy == [kind |-> "Any"]

FutureLookupStrategy == [kind |-> "FutureLookupStrategy", offset |-> 1]

NthValueStrategy(offset) == [kind |-> "NthValueStrategy", offset |-> offset]

AggregatedFutureStrategy(window, agg_fn) ==
    [kind |-> "AggregatedFutureStrategy", offset |-> 1,
     window |-> MaxOf(1, window), agg_fn |-> agg_fn]

Strategies ==
    {AnyStrategy, FutureLookupStrategy}
    \cup { NthValueStrategy(o) : o \in 1..MaxOffset }
    \cup { AggregatedFutureStrategy(w, f) : w \in 0..MaxWindow, f \in AggFns }

\* sum(xs): 0 + xs[0] + xs[1] + ... from the left
RECURSIVE FSum(_)
FSum(xs) == IF xs = << >> THEN FZero ELSE FAdd(FSum(SubSeq(xs, 1, Len(xs) - 1)), Last(xs))

RECURSIVE FMin(_)
FMin(xs) ==
    IF Len(xs) = 1 THEN xs[1]
    ELSE LET m == FMin(SubSeq(xs, 1, Len(xs) - 1))
         IN  IF FLt(Last(xs), m) THEN Last(xs) ELSE m

RECURSIVE FMax(_)
FMax(xs) ==
    IF Len(xs) = 1 THEN xs[1]
    ELSE LET m == FMax(SubSeq(xs, 1, Len(xs) - 1))
         IN  IF FGt(Last(xs), m) THEN Last(xs) ELSE m

\* agg_fn(xs) for a non-empty slice xs: sum, min, max, numpy.mean
Agg(agg_fn, xs) ==
    CASE agg_fn = "sum"  -> FSum(xs)
      [] agg_fn = "min"  -> FMin(xs)
      [] agg_fn = "max"  -> FMax(xs)
      [] agg_fn = "mean" -> FDiv(FSum(xs), FFromInt(Len(xs)))

\* FutureLookupStrategy.future_lookup / NthValueStrategy.future_lookup
OffsetLookup(self, i, bid_, ask_) ==
    LET future_idx == MinOf(i + self.offset, Len(bid_) - 1)
    IN  [bid |-> At(bid_, future_idx), ask |-> At(ask_, future_idx), agg_calls |-> 0]

\* variant: the window starts at the current bar
AggregatedLookupFromCurrent(self, i, bid_, ask_) ==
    LET start == i
        end   == MinOf(i + self.window, Len(bid_))
    IN  IF start >= end
        THEN [bid |-> Last(bid_), ask |-> Last(ask_), agg_calls |-> 0]
        ELSE [bid |-> Agg(self.agg_fn, Slice(bid_, start, end)),
              ask |-> Agg(self.agg_fn, Slice(ask_, start, end)),
              agg_calls |-> 2]

\* AggregatedFutureStrategy.future_lookup; agg_calls counts the calls of agg_fn
AggregatedLookup(self, i, bid_, ask_) ==
    LET start == i + 1
        end   == MinOf(i + 1 + self.window, Len(bid_))
    IN  IF start >= end
        THEN [bid |-> Last(bid_), ask |-> Last(ask_), agg_calls |-> 0]
        ELSE [bid |-> Agg(self.agg_fn, Slice(bid_, start, end)),
              ask |-> Agg(self.agg_fn, Slice(ask_, start, end)),
              agg_calls |-> 2]

\* self.future_lookup(i, bid, ask), dispatched on the class of self
FutureLookup(self, i, bid_, ask_) ==
    IF self.kind = "AggregatedFutureStrategy"
    THEN AggregatedLookup(self, i, bid_, ask_)
    ELSE OffsetLookup(self, i, bid_, ask_)

\* variant: a buy is decided without looking at the cash
DecideNoCashCheck(self, i, ts_, bid_, ask_, cash_, shares_) ==
    LET fut == FutureLookup(self, i, bid_, ask_)
    IN  IF FGt(fut.bid, At(ask_, i)) THEN "buy"
        ELSE IF shares_ # 0 /\ FLt(fut.ask, At(bid_, i)) THEN "sell"
        ELSE "hold"

\* variant: the sell condition is tested before the buy condition
DecideSellFirst(self, i, ts_, bid_, ask_, cash_, shares_) ==
    LET fut == FutureLookup(self, i, bid_, ask_)
    IN  IF shares_ # 0 /\ FLt(fut.ask, At(bid_, i)) THEN "sell"
        ELSE IF FGt(fut.bid, At(ask_, i)) /\ FGe(cash_, At(ask_, i)) THEN "buy"
        ELSE "hold"

\* FutureLookupStrategy.decide, inherited by the other two classes
Decide(self, i, ts_, bid_, ask_, cash_, shares_) ==
    LET fut == FutureLookup(self, i, bid_, ask_)
    IN  IF FGt(fut.bid, At(ask_, i)) /\ FGe(cash_, At(ask_, i)) THEN "buy"
        ELSE IF shares_ # 0 /\ FLt(fut.ask, At(bid_, i)) THEN "sell"
        ELSE "hold"

\* the decisions a strategy may return at bar i
Decisions(self, i, ts_, bid_, ask_, cash_, shares_) ==
    IF self.kind = "Any" THEN Labels
    ELSE {Decide(self, i, ts_, bid_, ask_, cash_, shares_)}

(***************************************************************************)
(* backtest.py: Backtester                                                 *)
(***************************************************************************)
VARIABLES
    pc,          \* "new", "error" (constructor raised), "ready", "running", "done"
    ctor,        \* arguments of the constructor call
    ts, bid, ask, strategy,
    cash, shares,
    trades,      \* self._trades
    pos_hist,    \* self._pos_hist
    cash_hist,   \* self._cash_hist
    i,           \* loop variable of run()
    action,      \* the decision of the strategy at the last bar processed
    stat_name_map, desc_to_prog,
    results,     \* what stats(style) returned or raised, per style called
    saved,       \* what the last save_results wrote
    call         \* last call of a pure function: its arguments and its outcome

engine == <<ts, bid, ask, strategy, cash, shares, trades, pos_hist, cash_hist,
            i, action, stat_name_map, desc_to_prog>>
vars == <<pc, ctor, engine, results, saved, call>>

None == "None"
NoCall == [fn |-> "none"]
NoFile == [format |-> "none"]

DEFAULT_STAT_MAP ==
    << <<"ann_ret", "Annualized return (linear)">>,
       <<"ann_turnover_bil", "Annualized turnover (billion times)">>,
       <<"max_drawdown", "Max drawdown">>,
       <<"hitrate", "Hit rate">>,
       <<"efficiency", "Portfolio efficiency">>,
       <<"ann_sharpe", "Annualized Sharpe">>,
       <<"sortino", "Sortino ratio">>,
       <<"calmar", "Calmar ratio">> >>

\* a dict is a sequence of <<key, value>> pairs in insertion order
Keys(d) == { d[k][1] : k \in 1..Len(d) }
Values(d) == { d[k][2] : k \in 1..Len(d) }
Get(d, key) == d[CHOOSE k \in 1..Len(d) : d[k][1] = key][2]

\* d.setdefault(key, value) for each pair of defaults, in order
RECURSIVE SetDefaults(_, _)
SetDefaults(d, defaults) ==
    IF defaults = << >> THEN d
    ELSE LET kv == Head(defaults)
         IN  SetDefaults(IF kv[1] \in Keys(d) THEN d ELSE Append(d, kv), Tail(defaults))

\* {v: k for k, v in d.items()}: the last key wins
Reverse(d) ==
    [v \in Values(d) |->
        d[CHOOSE k \in 1..Len(d) : d[k][2] = v /\ \A j \in (k + 1)..Len(d) : d[j][2] # v][1]]

Init ==
    /\ pc = "new"
    /\ ctor = None
    /\ ts = None /\ bid = None /\ ask = None /\ strategy = None
    /\ cash = None /\ shares = None
    /\ trades = None /\ pos_hist = None /\ cash_hist = None
    /\ i = None /\ action = None
    /\ stat_name_map = None /\ desc_to_prog = None
    /\ results = None
    /\ saved = NoFile
    /\ call = NoCall

\* variant: the length of asks is not compared
LengthsEqualBidsOnly(timestamps, bids, asks) ==
    Len(timestamps) = Len(bids)

\* len(timestamps) == len(bids) == len(asks)
LengthsEqual(timestamps, bids, asks) ==
    Len(timestamps) = Len(bids) /\ Len(bids) = Len(asks)

\* Backtester.__init__(timestamps, bids, asks, strategy, initial_cash, stat_name_map)
Construct(timestamps, bids, asks, strat, initial_cash, user_map) ==
    /\ pc = "new"
    /\ ctor' = [timestamps |-> Len(timestamps), bids |-> Len(bids), asks |-> Len(asks),
                initial_cash |-> initial_cash,
                raised |-> IF ~LengthsEqual(timestamps, bids, asks)
                           THEN "ValueError" ELSE None]
    /\ IF ~LengthsEqual(timestamps, bids, asks)
       THEN /\ pc' = "error"
            /\ UNCHANGED <<engine, results, saved, call>>
       ELSE /\ pc' = "ready"
            /\ ts' = timestamps
            /\ bid' = bids
            /\ ask' = asks
            /\ strategy' = strat
            /\ cash' = initial_cash
            /\ shares' = 0
            /\ trades' = << >>
            /\ pos_hist' = << >>
            /\ cash_hist' = << >>
            /\ i' = 0
            /\ action' = None
            /\ stat_name_map' = SetDefaults(user_map, DEFAULT_STAT_MAP)
            /\ desc_to_prog' = Reverse(SetDefaults(user_map, DEFAULT_STAT_MAP))
            /\ results' = [style \in {} |-> None]
            /\ UNCHANGED <<saved, call>>

\* variant: a buy is priced at the bid
ExecuteBuyAtBid(side, k, cash_, shares_, trades_) ==
    LET price == At(bid, k)
        qty   == IF side = "buy" THEN FFloor(FDiv(cash_, price)) ELSE shares_
    IN  IF qty = 0
        THEN [cash |-> cash_, shares |-> shares_, trades |-> trades_]
        ELSE [cash   |-> IF side = "buy" THEN FSub(cash_, FMul(FFromInt(qty), price))
                         ELSE FAdd(cash_, FMul(FFromInt(qty), price)),
              shares |-> IF side = "buy" THEN shares_ + qty ELSE shares_ - qty,
              trades |-> Append(trades_, [side |-> side, ts |-> At(ts, k),
                                          price |-> price, qty |-> qty])]

\* variant: a sell of more than one share leaves one share in the position
ExecuteSellPartial(side, k, cash_, shares_, trades_) ==
    LET price == IF side = "buy" THEN At(ask, k) ELSE At(bid, k)
        qty   == IF side = "buy" THEN FFloor(FDiv(cash_, price))
                 ELSE IF shares_ > 1 THEN shares_ - 1 ELSE shares_
    IN  IF qty = 0
        THEN [cash |-> cash_, shares |-> shares_, trades |-> trades_]
        ELSE [cash   |-> IF side = "buy" THEN FSub(cash_, FMul(FFromInt(qty), price))
                         ELSE FAdd(cash_, FMul(FFromInt(qty), price)),
              shares |-> IF side = "buy" THEN shares_ + qty ELSE shares_ - qty,
              trades |-> Append(trades_, [side |-> side, ts |-> At(ts, k),
                                          price |-> price, qty |-> qty])]

\* Backtester._execute(side, i): the ledger and the trade log afterwards
Execute(side, k, cash_, shares_, trades_) ==
    LET price == IF side = "buy" THEN At(ask, k) ELSE At(bid, k)
        qty   == IF side = "buy" THEN FFloor(FDiv(cash_, price)) ELSE shares_
    IN  IF qty = 0
        THEN [cash |-> cash_, shares |-> shares_, trades |-> trades_]
        ELSE [cash   |-> IF side = "buy" THEN FSub(cash_, FMul(FFromInt(qty), price))
                         ELSE FAdd(cash_, FMul(FFromInt(qty), price)),
              shares |-> IF side = "buy" THEN shares_ + qty ELSE shares_ - qty,
              trades |-> Append(trades_, [side |-> side, ts |-> At(ts, k),
                                          price |-> price, qty |-> qty])]

\* variant: the loop also takes the last bar
LoopEndAll(n) == n

\* range(n - 1): the loop of run() takes the bars 0 .. LoopEnd(n) - 1
LoopEnd(n) == n - 1

\* one iteration of the loop of run(): decide, _execute, _mark
Bar ==
    /\ pc \in {"ready", "running"}
    /\ i < LoopEnd(Len(bid))
    /\ \E a \in Decisions(strategy, i, ts, bid, ask, cash, shares) :
         LET after == IF a \in {"buy", "sell"}
                      THEN Execute(a, i, cash, shares, trades)
                      ELSE [cash |-> cash, shares |-> shares, trades |-> trades]
         IN  /\ action' = a
             /\ cash' = after.cash
             /\ shares' = after.shares
             /\ trades' = after.trades
             /\ pos_hist' = Append(pos_hist, after.shares)
             /\ cash_hist' = Append(cash_hist, after.cash)
    /\ i' = i + 1
    /\ pc' = "running"
    /\ UNCHANGED <<ctor, ts, bid, ask, strategy, stat_name_map, desc_to_prog,
                   results, saved, call>>

\* the end of run(): final liquidation, _mark, return self.cash
Finish ==
    /\ pc \in {"ready", "running"}
    /\ ~(i < LoopEnd(Len(bid)))
    /\ LET liq == shares # 0
           c   == IF liq THEN FAdd(cash, FMul(FFromInt(shares), Last(bid))) ELSE cash
       IN  /\ cash' = c
           /\ trades' = IF liq
                        THEN Append(trades, [side |-> "final_liq", ts |-> Last(ts),
                                             price |-> Last(bid), qty |-> shares])
                        ELSE trades
           /\ shares' = IF liq THEN 0 ELSE shares
           /\ pos_hist' = Append(pos_hist, IF liq THEN 0 ELSE shares)
           /\ cash_hist' = Append(cash_hist, c)
    /\ pc' = "done"
    /\ UNCHANGED <<ctor, ts, bid, ask, strategy, i, action, stat_name_map, desc_to_prog,
                   results, saved, call>>

\* the constructor calls of the specification of the run
ConstructRun ==
    /\ pc = "new"
    /\ \E bars \in BarSeqs(MaxBars), nt \in 0..MaxBars, nb \in 0..MaxBars, na \in 0..MaxBars,
          strat \in Strategies, initial_cash \in Cashes :
         /\ nt <= Len(bars) /\ nb <= Len(bars) /\ na <= Len(bars)
         /\ Construct(Stamps(nt),
                      [k \in 1..nb |-> bars[k][1]], [k \in 1..na |-> bars[k][2]],
                      strat, initial_cash, << >>)

Next == ConstructRun \/ Bar \/ Finish

Spec == Init /\ [][Next]_vars

(***************************************************************************)
(* Calls of the strategy functions on their own (alpha.py).                *)
(***************************************************************************)
MaxShares == 1

Prices == {FFromInt(10), FFromInt(11)}
CallCashes == {Lit(21, 2), FFromInt(100)}

CallFutureLookup ==
    /\ call = NoCall
    /\ \E n \in 1..MaxBars :
       \E bid_ \in [1..n -> Prices], ask_ \in [1..n -> Prices], k \in 0..(n - 1),
          self \in Strategies \ {AnyStrategy} :
           call' = [fn |-> "future_lookup", self |-> self, i |-> k,
                    bid |-> bid_, ask |-> ask_,
                    out |-> FutureLookup(self, k, bid_, ask_)]
    /\ UNCHANGED <<pc, ctor, engine, results, saved>>

CallDecide ==
    /\ call = NoCall
    /\ \E n \in 1..MaxBars :
       \E bid_ \in [1..n -> Prices], ask_ \in [1..n -> Prices], k \in 0..(n - 1),
          self \in Strategies \ {AnyStrategy},
          cash_ \in CallCashes, shares_ \in 0..MaxShares :
           call' = [fn |-> "decide", self |-> self, i |-> k,
                    bid |-> bid_, ask |-> ask_, cash |-> cash_, shares |-> shares_,
                    out |-> Decide(self, k, Stamps(n), bid_, ask_, cash_, shares_)]
    /\ UNCHANGED <<pc, ctor, engine, results, saved>>

NextStrategy == CallFutureLookup \/ CallDecide

SpecStrategy == Init /\ [][NextStrategy]_vars

(***************************************************************************)
(* performance.py: annualization and period counts.  A datetime is its     *)
(* number of seconds since the epoch.                                      *)
(***************************************************************************)
MaxStamps == 3
MaxSecond == 3

Raise(e) == [ok |-> FALSE, raised |-> e]
Return(v) == [ok |-> TRUE, value |-> v]

\* (b - a).total_seconds()
TotalSeconds(a, b) == FFromInt(b - a)

\* seconds_per_year = 365.25 * 24 * 60 * 60
SecondsPerYear ==
    FMul(FMul(FMul(Lit(1461, 4), FFromInt(24)), FFromInt(60)), FFromInt(60))

estimate_annualization_factor_unix(timestamps) ==
    IF Len(timestamps) < 2 THEN Raise("ValueError")
    ELSE LET total_periods == Len(timestamps) - 1
             duration_sec  == TotalSeconds(timestamps[1], Last(timestamps))
         IN  IF FLe(duration_sec, FZero) THEN Raise("ValueError")
             ELSE Return(FMul(FDiv(FFromInt(total_periods), duration_sec), SecondsPerYear))

\* pd.to_timedelta(target_period_length).total_seconds()
PeriodSeconds ==
    [p \in {"1s", "1min", "100ms"} |->
        CASE p = "1s" -> FFromInt(1) [] p = "1min" -> FFromInt(60) [] p = "100ms" -> Lit(1, 10)]

compute_effective_period_count(timestamps, target_period_length) ==
    IF Len(timestamps) < 2 THEN Raise("ValueError")
    ELSE LET total_duration == TotalSeconds(timestamps[1], Last(timestamps))
             period_sec     == PeriodSeconds[target_period_length]
         IN  Return(FDiv(total_duration, period_sec))

ANNUALIZATION_MAP ==
    LET day == Lit(1461, 4)
        hour == FMul(day, FFromInt(24))
        minute == FMul(hour, FFromInt(60))
        second == FMul(minute, FFromInt(60))
    IN  [f \in {"year", "month", "day", "hour", "minute", "second",
                "microsecond", "nanosecond"} |->
            CASE f = "year" -> FFromInt(1)
              [] f = "month" -> FFromInt(12)
              [] f = "day" -> day
              [] f = "hour" -> hour
              [] f = "minute" -> minute
              [] f = "second" -> second
              [] f = "microsecond" -> FMul(second, FFromInt(1000000))
              [] f = "nanosecond" -> FMul(second, FFromInt(1000000000))]

get_annualization_factor(freq) ==
    IF freq \in DOMAIN ANNUALIZATION_MAP THEN Return(ANNUALIZATION_MAP[freq])
    ELSE Raise("KeyError")

\* an optional float argument: None, or a float
NoFloat == [given |-> FALSE]
Given(x) == [given |-> TRUE, value |-> x]

\* variant: the factor is tested for truth, not for None
resolve_annualization_truthy(freq, annualization_factor) ==
    IF annualization_factor.given /\ annualization_factor.value # FZero
    THEN Return(annualization_factor.value)
    ELSE IF freq # None THEN get_annualization_factor(freq)
    ELSE Raise("ValueError")

resolve_annualization(freq, annualization_factor) ==
    IF annualization_factor.given THEN Return(annualization_factor.value)
    ELSE IF freq # None THEN get_annualization_factor(freq)
    ELSE Raise("ValueError")

StampSeqs == UNION { [1..n -> 1..MaxSecond] : n \in 0..MaxStamps }
Freqs == {None, "week"} \cup DOMAIN ANNUALIZATION_MAP
Factors == {NoFloat, Given(FZero), Given(FFromInt(252)), Given(Lit(1461, 4))}

CallEstimate ==
    /\ call = NoCall
    /\ \E timestamps \in StampSeqs :
         call' = [fn |-> "estimate_annualization_factor_unix", timestamps |-> timestamps,
                  out |-> estimate_annualization_factor_unix(timestamps)]
    /\ UNCHANGED <<pc, ctor, engine, results, saved>>

CallPeriodCount ==
    /\ call = NoCall
    /\ \E timestamps \in StampSeqs, p \in DOMAIN PeriodSeconds :
         call' = [fn |-> "compute_effective_period_count", timestamps |-> timestamps,
                  target_period_length |-> p,
                  out |-> compute_effective_period_count(timestamps, p)]
    /\ UNCHANGED <<pc, ctor, engine, results, saved>>

CallResolve ==
    /\ call = NoCall
    /\ \E freq \in Freqs, annualization_factor \in Factors :
         call' = [fn |-> "resolve_annualization", freq |-> freq,
                  annualization_factor |-> annualization_factor,
                  out |-> resolve_annualization(freq, annualization_factor)]
    /\ UNCHANGED <<pc, ctor, engine, results, saved>>

NextPerformance == CallEstimate \/ CallPeriodCount \/ CallResolve

SpecPerformance == Init /\ [][NextPerformance]_vars

(***************************************************************************)
(* backtest.py: the analytics and the persistence of a Backtester whose    *)
(* run() has returned.                                                     *)
(***************************************************************************)
MaxStatBars == 3

\* <<bid, ask>> of a bar, and the series of at most m bars
StatBars == { <<FFromInt(10), Lit(21, 2)>>, <<FFromInt(12), Lit(25, 2)>> }
StatBarSeqs(m) == UNION { [1..n -> StatBars] : n \in 0..m }

NaN == [nan |-> TRUE]

\* zip(self._pos_hist, self.bid[: len(self._pos_hist)], self._cash_hist)
ZipLen == MinOf(MinOf(Len(pos_hist), Len(bid)), Len(cash_hist))

\* p * px of the k-th triple of the zip
PosValue(k) == FMul(FFromInt(pos_hist[k]), bid[k])

\* p * px + c of the k-th triple of the zip
Mtm(k) == FAdd(PosValue(k), cash_hist[k])

\* Backtester.equity_curve(): the values of the series
equity_curve == [k \in 1..ZipLen |-> Mtm(k)]

\* ((p * px) / (p * px + c)) if (p * px + c) else np.nan
Weight(value, total) ==
    IF FCmp(total, FZero) # 0 THEN FDiv(value, total) ELSE NaN

\* Backtester.weights(): the values of the series
weights == [k \in 1..ZipLen |-> Weight(PosValue(k), Mtm(k))]

\* a metric is kept as the call that computes it, not evaluated
Metric(fn, args) == [fn |-> fn, args |-> args]

\* the dict that _compute_metrics returns
MetricDict(rets, wts, total_periods, ann_factor) ==
    << <<"Annualized return (linear)",
         Metric("annualized_returns_linear", <<rets, total_periods, ann_factor>>)>>,
       <<"Annualized turnover (billion times)",
         Metric("annualized_turnover", <<wts, total_periods, ann_factor>>)>>,
       <<"Max drawdown", Metric("max_drawdown", <<rets>>)>>,
       <<"Hit rate", Metric("long_only_hitrate", <<rets>>)>>,
       <<"Portfolio efficiency", Metric("naive_portfolio_efficiency", <<rets, wts, ts>>)>>,
       <<"Annualized Sharpe", Metric("annualized_sharpe", <<rets, ann_factor>>)>>,
       <<"Sortino ratio", Metric("sortino_ratio", <<rets, ann_factor>>)>>,
       <<"Calmar ratio", Metric("calmar_ratio", <<rets, ann_factor, ts>>)>> >>

\* the outcome of _compute_metrics given the outcomes of the two period helpers
MetricsOf(curve, wts, total_periods, ann_factor) ==
    IF ~total_periods.ok THEN total_periods
    ELSE IF ~ann_factor.ok THEN ann_factor
    ELSE Return(MetricDict(Metric("pct_change", <<curve>>), wts,
                           total_periods.value, ann_factor.value))

\* Backtester._compute_metrics(): raises what the two period helpers raise
compute_metrics ==
    MetricsOf(equity_curve, weights,
              compute_effective_period_count(ts, "1s"),
              estimate_annualization_factor_unix(ts))

\* variant: a metric without a programmatic alias keeps its descriptive key
prog_dict_unfiltered(desc_dict) ==
    [k \in 1..Len(desc_dict) |->
        <<IF desc_dict[k][1] \in DOMAIN desc_to_prog
          THEN desc_to_prog[desc_dict[k][1]] ELSE desc_dict[k][1],
          desc_dict[k][2]>>]

\* {self._desc_to_prog[k]: v for k, v in desc_dict.items() if k in self._desc_to_prog};
\* distinct keys of desc_dict have distinct aliases, so no entry replaces another
prog_dict(desc_dict) ==
    LET registered(kv) == kv[1] \in DOMAIN desc_to_prog
        kept == SelectSeq(desc_dict, registered)
    IN  [k \in 1..Len(kept) |-> <<desc_to_prog[kept[k][1]], kept[k][2]>>]

\* the view of the metrics that stats(style) returns
Styled(desc_dict, prog, style) ==
    CASE style = "desc" -> Return(desc_dict)
      [] style = "prog" -> Return(prog)
      [] style = "both" -> Return([prog |-> prog, desc |-> desc_dict])
      [] OTHER -> Raise("ValueError")

\* stats(style) given the outcome of _compute_metrics
StatsOf(metrics, style) ==
    IF ~metrics.ok THEN metrics
    ELSE Styled(metrics.value, prog_dict(metrics.value), style)

\* Backtester.stats(style): float(v) keeps the value of v
stats(style) == StatsOf(compute_metrics, style)

\* json.dumps(..., default=str) of a trade: an array, the timestamp as a string
JsonTrade(t) == <<t.side, [str |-> t.ts], t.price, t.qty>>

\* a row of csv.writer for a trade
CsvRow(t) == <<t.side, t.ts, t.price, t.qty>>

\* the file after save_results: nothing is written when stats raised
Written(suffix, curve, wts, st) ==
    IF ~st.ok THEN saved
    ELSE IF suffix = ".json"
    THEN [format |-> "json",
          data |-> [trades |-> [k \in 1..Len(trades) |-> JsonTrade(trades[k])],
                    equity_curve |-> curve,
                    weights |-> wts,
                    stats |-> st.value]]
    ELSE [format |-> "csv",
          rows |-> <<<<"side", "timestamp", "price", "quantity">>>>
                   \o [k \in 1..Len(trades) |-> CsvRow(trades[k])]]

\* Backtester.save_results(path, stats_style)
save_results(suffix, stats_style) ==
    Written(suffix, equity_curve, weights, stats(stats_style))

Styles == {"desc", "prog", "both", "full"}
SaveStyles == {"both", "full"}
Suffixes == {".json", ".csv"}

\* stat_name_map arguments: none, an override of a default key, a second alias of a
\* default description, and both at once
UserMaps ==
    { << >>,
      << <<"ann_ret", "My return">> >>,
      << <<"my_ret", "Annualized return (linear)">> >>,
      << <<"hit", "Hit rate">>, <<"hitrate", "Max drawdown">> >> }

ConstructStats ==
    /\ pc = "new"
    /\ \E bars \in StatBarSeqs(MaxStatBars), user_map \in UserMaps :
         Construct(Stamps(Len(bars)),
                   [k \in 1..Len(bars) |-> bars[k][1]], [k \in 1..Len(bars) |-> bars[k][2]],
                   FutureLookupStrategy, FFromInt(100), user_map)

\* a call of stats(style) after run()
Stats ==
    /\ pc = "done"
    /\ \E style \in Styles :
         results' = [s \in DOMAIN results \cup {style} |->
                        IF s = style THEN stats(style) ELSE results[s]]
    /\ UNCHANGED <<pc, ctor, engine, saved, call>>

\* a call of save_results(path, stats_style) after run()
SaveResults ==
    /\ pc = "done"
    /\ \E suffix \in Suffixes, stats_style \in SaveStyles :
         saved' = save_results(suffix, stats_style)
    /\ UNCHANGED <<pc, ctor, engine, results, call>>

NextStats == ConstructStats \/ Bar \/ Finish \/ Stats \/ SaveResults

SpecStats == Init /\ [][NextStats]_vars

(***************************************************************************)
(* Properties of the engine                                                *)
(***************************************************************************)
Constructed == pc \in {"ready", "running", "done"}

\* C1: for any strategy, positive prices and non-negative initial cash, cash and
\* shares are never negative during run(), and shares = 0 when run() returns.
C1_LedgerNonNegative ==
    Constructed =>
        /\ FGe(cash, FZero)
        /\ shares >= 0
        /\ pc = "done" => shares = 0

\* C2: the constructor raises ValueError and creates no engine exactly when the
\* three sequences differ in length; otherwise it succeeds (length 2 included)
\* with cash = initial_cash, shares = 0, an empty trade log and empty histories.
C2_Constructor ==
    LET equal == ctor.timestamps = ctor.bids /\ ctor.bids = ctor.asks
    IN  /\ pc = "error" =>
            /\ ~equal
            /\ ctor.raised = "ValueError"
            /\ ts = None /\ bid = None /\ ask = None /\ cash = None /\ shares = None
            /\ trades = None /\ pos_hist = None /\ cash_hist = None
        /\ Constructed => equal /\ ctor.raised = None /\ Len(bid) = ctor.bids
        /\ pc = "ready" =>
            /\ cash = ctor.initial_cash
            /\ shares = 0
            /\ trades = << >> /\ pos_hist = << >> /\ cash_hist = << >>

C2_Witness == pc = "error" /\ ctor.timestamps = 2 /\ ctor.bids = 2 /\ ctor.asks = 1

\* the run of the reference trace: one-bar look-ahead, bid 10, 11, 12,
\* ask 10.5, 11.5, 12.5, initial cash 100
C3_Case ==
    /\ Constructed
    /\ strategy = FutureLookupStrategy
    /\ bid = <<FFromInt(10), FFromInt(11), FFromInt(12)>>
    /\ ask = <<Lit(21, 2), Lit(23, 2), Lit(25, 2)>>
    /\ ctor.initial_cash = FFromInt(100)

C3_Buy == [side |-> "buy", ts |-> At(ts, 0), price |-> Lit(21, 2), qty |-> 9]
C3_Liq == [side |-> "final_liq", ts |-> At(ts, 2), price |-> FFromInt(12), qty |-> 9]

\* C3: the reference run decides "buy" at bar 0 (9 shares at 10.5, cash 5.5) and
\* "hold" at bar 1, then liquidates 9 shares at 12: the trade log is
\* [buy, final_liq] and run() returns 113.5.
C3_ReferenceTrace ==
    C3_Case =>
        /\ i = 1 => /\ action = "buy"
                    /\ trades = <<C3_Buy>>
                    /\ shares = 9 /\ cash = Lit(11, 2)
        /\ i = 2 /\ pc = "running" =>
                    /\ action = "hold"
                    /\ trades = <<C3_Buy>>
                    /\ shares = 9 /\ cash = Lit(11, 2)
        /\ pc = "done" =>
                    /\ trades = <<C3_Buy, C3_Liq>>
                    /\ shares = 0 /\ cash = Lit(227, 2)
                    /\ pos_hist = <<9, 9, 0>>
                    /\ cash_hist = <<Lit(11, 2), Lit(11, 2), Lit(227, 2)>>

C3_Witness == C3_Case /\ pc = "done" /\ Len(trades) = 2

\* the ledger when the loop of run() was left
SharesAfterLoop == IF Len(pos_hist) >= 2 THEN pos_hist[Len(pos_hist) - 1] ELSE 0
CashAfterLoop ==
    IF Len(cash_hist) >= 2 THEN cash_hist[Len(cash_hist) - 1] ELSE ctor.initial_cash

BarStep(d) ==
    /\ pc \in {"ready", "running"}
    /\ pc' = "running"
    /\ i' = i + 1
    /\ action' = d

\* C11: a "buy" decision at bar i buys quantity = floor(cash / ask[i]) shares at
\* ask[i]: cash decreases by quantity * ask[i], shares increase by quantity and one
\* ("buy", ts[i], ask[i], quantity) record is appended; with quantity 0 the cash,
\* the shares and the trade log stay as they are.
C11_Buy ==
    [][BarStep("buy") =>
        LET price    == At(ask, i)
            quantity == FFloor(FDiv(cash, price))
        IN  IF quantity = 0
            THEN cash' = cash /\ shares' = shares /\ trades' = trades
            ELSE /\ cash' = FSub(cash, FMul(FFromInt(quantity), price))
                 /\ shares' = shares + quantity
                 /\ trades' = Append(trades, [side |-> "buy", ts |-> At(ts, i),
                                              price |-> price, qty |-> quantity])]_vars

\* a buy of 9 shares at 10.5 out of a cash of 100 has just been executed at bar 0
C11_Witness ==
    /\ pc = "running" /\ action = "buy" /\ i = 1
    /\ ctor.initial_cash = FFromInt(100)
    /\ trades = <<[side |-> "buy", ts |-> At(ts, 0), price |-> Lit(21, 2), qty |-> 9]>>
    /\ shares = 9
    /\ cash = Lit(11, 2)

\* C12: a "sell" decision at bar i sells the whole position at bid[i]: afterwards
\* shares = 0, cash has grown by (shares before) * bid[i] and the appended "sell"
\* record carries the prior share count; with 0 shares held the ledger and the
\* trade log stay as they are.
C12_Sell ==
    [][BarStep("sell") =>
        IF shares = 0
        THEN cash' = cash /\ shares' = shares /\ trades' = trades
        ELSE /\ shares' = 0
             /\ cash' = FAdd(cash, FMul(FFromInt(shares), At(bid, i)))
             /\ trades' = Append(trades, [side |-> "sell", ts |-> At(ts, i),
                                          price |-> At(bid, i), qty |-> shares])]_vars

\* a position of 9 shares bought at bar 0 has just been sold whole at bar 1
C12_Witness ==
    /\ pc = "running" /\ action = "sell" /\ i = 2
    /\ Len(trades) = 2
    /\ trades[1].side = "buy" /\ trades[1].qty = 9
    /\ trades[2] = [side |-> "sell", ts |-> At(ts, 1), price |-> At(bid, 1), qty |-> 9]
    /\ shares = 0
    /\ pos_hist = <<9, 0>>

\* the cash that the records of a trade log account for, taken in their order
RECURSIVE CashFromLog(_)
CashFromLog(log) ==
    IF log = << >> THEN ctor.initial_cash
    ELSE LET t      == log[Len(log)]
             before == CashFromLog(SubSeq(log, 1, Len(log) - 1))
         IN  IF t.side = "buy" THEN FSub(before, FMul(FFromInt(t.qty), t.price))
             ELSE FAdd(before, FMul(FFromInt(t.qty), t.price))

\* the shares that the records of a trade log account for
RECURSIVE SharesFromLog(_)
SharesFromLog(log) ==
    IF log = << >> THEN 0
    ELSE LET t == log[Len(log)]
         IN  SharesFromLog(SubSeq(log, 1, Len(log) - 1))
             + (IF t.side = "buy" THEN t.qty ELSE -t.qty)

\* cash and shares are what the trade log accounts for
LedgerMatchesLog == cash = CashFromLog(trades) /\ shares = SharesFromLog(trades)

\* every record has a positive quantity
QuantitiesPositive == \A k \in 1..Len(trades) : trades[k].qty > 0

\* the trade log of the next state extends the one of this state
LogGrows == Len(trades') >= Len(trades) /\ SubSeq(trades', 1, Len(trades)) = trades

\* C13: in every state of run(), for any strategy, cash is initial_cash minus
\* quantity * price of the "buy" records plus quantity * price of the "sell" and
\* "final_liq" records, shares is the bought minus the sold quantity, every record
\* has quantity > 0, and records are only ever appended to the trade log.
C13_Consistency ==
    /\ [](Constructed => (LedgerMatchesLog /\ QuantitiesPositive))
    /\ [][Constructed => LogGrows]_vars

(***************************************************************************)
(* Properties of the analytics and the persistence                         *)
(***************************************************************************)
\* C5: after run() over a series of n bars accepted by the constructor, positions,
\* cash_history, equity_curve() and weights() all have length n, and a document
\* saved by save_results holds equity_curve and weights arrays of that length and
\* as many trades as the trade log.
C5_Lengths ==
    pc = "done" =>
        LET n == Len(bid)
        IN  /\ Len(pos_hist) = n
            /\ Len(cash_hist) = n
            /\ Len(equity_curve) = n
            /\ Len(weights) = n
            /\ saved.format = "json" =>
                 /\ Len(saved.data.equity_curve) = n
                 /\ Len(saved.data.weights) = n
                 /\ Len(saved.data.trades) = Len(trades)

C4_AggregatedLookup ==
    call.fn = "future_lookup" /\ call.self.kind = "AggregatedFutureStrategy" =>
        LET n     == Len(call.bid)
            start == call.i + 1
            end   == MinOf(call.i + 1 + call.self.window, n)
        IN  /\ call.self.window >= 1
            /\ IF start < end
               THEN call.out = [bid |-> Agg(call.self.agg_fn, SubSeq(call.bid, start + 1, end)),
                                ask |-> Agg(call.self.agg_fn, SubSeq(call.ask, start + 1, end)),
                                agg_calls |-> 2]
               ELSE call.out = [bid |-> call.bid[n], ask |-> call.ask[n], agg_calls |-> 0]

C4_Witness ==
    /\ call.fn = "future_lookup" /\ call.self.kind = "AggregatedFutureStrategy"
    /\ call.self.window = 3 /\ call.self.agg_fn = "sum"
    /\ Len(call.bid) = 3 /\ call.i = 2
    /\ call.bid[3] # call.bid[2]
    /\ call.out = [bid |-> call.bid[3], ask |-> call.ask[3], agg_calls |-> 0]

C7_FailFast ==
    call.fn \in {"estimate_annualization_factor_unix", "compute_effective_period_count"} =>
        LET t == call.timestamps
        IN  /\ Len(t) < 2 => ~call.out.ok
            /\ Len(t) >= 2 /\ Last(t) - t[1] <= 0 => ~call.out.ok
            /\ Len(t) = 2 /\ t[1] < t[2] => call.out.ok /\ FGt(call.out.value, FZero)

\* C8: resolve_annualization returns an explicit factor unchanged whatever freq
\* is, otherwise the table entry of freq (365.25 for "day"), and raises
\* ValueError when both are absent.
C8_Resolve ==
    call.fn = "resolve_annualization" =>
        /\ call.annualization_factor.given =>
              call.out = Return(call.annualization_factor.value)
        /\ ~call.annualization_factor.given /\ call.freq \in DOMAIN ANNUALIZATION_MAP =>
              call.out = Return(ANNUALIZATION_MAP[call.freq])
        /\ ~call.annualization_factor.given /\ call.freq = "day" =>
              call.out = Return(Lit(1461, 4))
        /\ ~call.annualization_factor.given /\ call.freq = None =>
              call.out = Raise("ValueError")

C8_Witness ==
    /\ call.fn = "resolve_annualization"
    /\ call.annualization_factor = Given(FZero) /\ call.freq = "day"
    /\ call.out = Return(FZero)
====
